---- MODULE Spec2Model ----
(***************************************************************************)
(* Model of lib/google.js: receipt verification against the live and       *)
(* sandbox public keys and the purchase-status reconciliation              *)
(* (getSubInfo -> validate -> recheck) with the Google token refresh.      *)
(*                                                                         *)
(* JavaScript runs one callback at a time: every action below is one       *)
(* synchronous run of the program, from an API call or from the arrival of *)
(* an HTTP response up to the point where the program returns to the event *)
(* loop (a request is in flight, the caller's callback was invoked, or an  *)
(* exception left the run).                                                *)
(*                                                                         *)
(* Values.  A JavaScript string is a sequence of tokens (<<>> is the empty *)
(* string, which is falsy like undefined); an Error object is a record     *)
(* with its message and the place that created it (its identity).          *)
(***************************************************************************)
EXTENDS Integers, Sequences, FiniteSets, TLC

\* Call slots: a validatePurchase invocation runs in a slot until it ends.
Calls == {1, 2}
\* The slots the sequential specification uses.
SeqCalls == {1}
\* Bound: how many validatePurchase invocations one behaviour starts.
MaxCalls == 2

SUCCESS == "SUCCESS"
FAILURE == "FAILURE"
PENDING == "PENDING"
GOOGLE == "GOOGLE"

NoKey == <<>>
NoToken == <<>>
Truthy(s) == s # <<>>

-----------------------------------------------------------------------------
(* Error objects *)

NoError == [message |-> <<>>, origin |-> "none"]
Err(msg, origin) == [message |-> msg, origin |-> origin]
IsError(e) == e.origin # "none"

-----------------------------------------------------------------------------
(* readConfig *)

sandboxPkey == <<"iap-sandbox">>
livePkey == <<"iap-live">>

NullConfig ==
    [isNull |-> TRUE,
     googlePublicKeyStrSandbox |-> <<>>, googlePublicKeyStrLive |-> <<>>,
     googlePublicKeyPath |-> <<>>,
     googleAccToken |-> <<>>, googleRefToken |-> <<>>,
     googleClientID |-> <<>>, googleClientSecret |-> <<>>]

NoTokenMap ==
    [accessToken |-> NoToken, refreshToken |-> <<>>, clientID |-> <<>>,
     clientSecret |-> <<>>]

\* The configIn objects given to readConfig.  given = FALSE is a falsy configIn.
\* publicKeyStrSandbox / publicKeyStrLive are the backward-compatible names.
ConfigIns ==
    [given : BOOLEAN,
     googlePublicKeyStrSandbox : {<<>>, <<"strSandbox">>},
     googlePublicKeyStrLive : {<<>>, <<"strLive">>},
     publicKeyStrSandbox : {<<>>, <<"oldStrSandbox">>},
     publicKeyStrLive : {<<>>},
     googlePublicKeyPath : {<<>>, <<"/keys/">>},
     googleAccToken : {<<>>, <<"tok0">>},
     googleRefToken : {<<"ref0">>},
     googleClientID : {<<"id0">>},
     googleClientSecret : {<<>>, <<"secret0">>}]

\* Object.keys(configIn).forEach: a key that is present (non-empty here) and
\* matches /^google/ is copied and sets configValueSet.
GoogleKeys ==
    {"googlePublicKeyStrSandbox", "googlePublicKeyStrLive", "googlePublicKeyPath",
     "googleAccToken", "googleRefToken", "googleClientID", "googleClientSecret"}

configValueSet(configIn) == \E k \in GoogleKeys : Truthy(configIn[k])

\* config after readConfig(configIn), given the config before.
readConfigConfig(configIn, old) ==
    IF ~configIn.given THEN old
    ELSE IF ~configValueSet(configIn) THEN NullConfig
    ELSE [isNull |-> FALSE,
          googlePublicKeyStrSandbox |->
              IF Truthy(configIn.publicKeyStrSandbox)
                  THEN configIn.publicKeyStrSandbox
                  ELSE configIn.googlePublicKeyStrSandbox,
          googlePublicKeyStrLive |->
              IF Truthy(configIn.publicKeyStrLive)
                  THEN configIn.publicKeyStrLive
                  ELSE configIn.googlePublicKeyStrLive,
          googlePublicKeyPath |-> configIn.googlePublicKeyPath,
          googleAccToken |-> configIn.googleAccToken,
          googleRefToken |-> configIn.googleRefToken,
          googleClientID |-> configIn.googleClientID,
          googleClientSecret |-> configIn.googleClientSecret]

\* The full credential tuple is present.
hasCredentials(cfg) ==
    /\ Truthy(cfg.googleAccToken)
    /\ Truthy(cfg.googleRefToken)
    /\ Truthy(cfg.googleClientID)
    /\ Truthy(cfg.googleClientSecret)

\* keyPathMap after readConfig: googlePublicKeyPath + sandboxPkey / livePkey.
readConfigKeyPathMap(cfg) ==
    [sandbox |-> cfg.googlePublicKeyPath \o sandboxPkey,
     live |-> cfg.googlePublicKeyPath \o livePkey]

readConfigTokenMap(cfg) ==
    [accessToken |-> cfg.googleAccToken, refreshToken |-> cfg.googleRefToken,
     clientID |-> cfg.googleClientID, clientSecret |-> cfg.googleClientSecret]

-----------------------------------------------------------------------------
(* setup *)

ENV_PUBLICKEY == [SANDBOX |-> "GOOGLE_IAB_PUBLICKEY_SANDBOX", LIVE |-> "GOOGLE_IAB_PUBLICKEY_LIVE"]

NoKeyMap == [sandbox |-> NoKey, live |-> NoKey]

\* The process environments: the value of each of the two variables.
Envs ==
    [SANDBOX : {<<>>, <<"envSandbox">>},
     LIVE : {<<>>, <<"envLive">>, <<"envLive", "s">>}]

\* The file systems: the content of the file at a path, <<>> when it is missing.
FileAt(files, path) ==
    IF path = <<"/keys/">> \o sandboxPkey THEN files.sandbox
    ELSE IF path = <<"/keys/">> \o livePkey THEN files.live
    ELSE <<>>

FileSystems ==
    [sandbox : {<<>>, <<"fileSandbox", "\n">>},
     live : {<<>>, <<"fileLive">>}]

\* str.replace(/s+$/, ''): drops the letters s that end the string.
RECURSIVE replaceTrailingS(_)
replaceTrailingS(str) ==
    IF str # <<>> /\ str[Len(str)] = "s"
        THEN replaceTrailingS(SubSeq(str, 1, Len(str) - 1))
        ELSE str

\* str.replace(/\s+$/, ''): drops the white space that ends the string.
RECURSIVE replaceTrailingSpace(_)
replaceTrailingSpace(str) ==
    IF str # <<>> /\ str[Len(str)] \in {" ", "\n"}
        THEN replaceTrailingSpace(SubSeq(str, 1, Len(str) - 1))
        ELSE str

\* Mutant of setupKeys: each tag takes the first of its string, its file and
\* its environment variable.
setupKeysPerTag(cfg, kpm, env, files, pkm) ==
    LET file(path) == IF cfg.isNull \/ ~Truthy(cfg.googlePublicKeyPath)
                          THEN <<>> ELSE replaceTrailingSpace(FileAt(files, path))
        first(str, fileKey, envKey) ==
            IF ~cfg.isNull /\ Truthy(str) THEN str
            ELSE IF Truthy(fileKey) THEN fileKey
            ELSE replaceTrailingS(envKey)
    IN  [sandbox |-> first(cfg.googlePublicKeyStrSandbox, file(kpm.sandbox), env.SANDBOX),
         live |-> first(cfg.googlePublicKeyStrLive, file(kpm.live), env.LIVE)]

\* publicKeyMap after setup, given the map before.
setupKeys(cfg, kpm, env, files, pkm) ==
    IF ~cfg.isNull /\ (Truthy(cfg.googlePublicKeyStrSandbox) \/ Truthy(cfg.googlePublicKeyStrLive))
    THEN [sandbox |-> IF Truthy(cfg.googlePublicKeyStrSandbox)
                          THEN cfg.googlePublicKeyStrSandbox ELSE pkm.sandbox,
          live |-> IF Truthy(cfg.googlePublicKeyStrLive)
                       THEN cfg.googlePublicKeyStrLive ELSE pkm.live]
    ELSE IF cfg.isNull \/ ~Truthy(cfg.googlePublicKeyPath)
    THEN [sandbox |-> IF Truthy(env.SANDBOX)
                          THEN replaceTrailingS(env.SANDBOX) ELSE pkm.sandbox,
          live |-> IF Truthy(env.LIVE)
                       THEN replaceTrailingS(env.LIVE) ELSE pkm.live]
    ELSE [sandbox |-> IF FileAt(files, kpm.sandbox) # <<>>
                          THEN replaceTrailingSpace(FileAt(files, kpm.sandbox))
                          ELSE pkm.sandbox,
          live |-> IF FileAt(files, kpm.live) # <<>>
                       THEN replaceTrailingSpace(FileAt(files, kpm.live))
                       ELSE pkm.live]

-----------------------------------------------------------------------------
(* JavaScript values of the receipt *)

JsUndefined == [type |-> "undefined", val |-> <<>>]
JsNull == [type |-> "null", val |-> <<>>]
JsStr(s) == [type |-> "string", val |-> s]
JsNum(n) == [type |-> "number", val |-> <<n>>]
JsObj(o) == [type |-> "object", val |-> o]

\* typeof v
TypeOf(v) == IF v.type = "null" THEN "object" ELSE v.type

\* !!v
JsTruthy(v) ==
    CASE v.type \in {"undefined", "null"} -> FALSE
      [] v.type = "string" -> v.val # <<>>
      [] v.type = "number" -> v.val # <<"0">>
      [] OTHER -> TRUE

\* The purchase the receipts are about, as an object and as the JSON text
\* that the store signed.
Purchase == <<"purchase1">>
PurchaseText == <<"{">> \o Purchase \o <<"}">>

\* Who made a signature: the holder of the live, sandbox or dynamically fed
\* key pair, or nobody who holds a key ("forged").
Signers == {"live", "sandbox", "dyn", "forged"}

ReceiptObjects ==
    [type : {"object"},
     data : {JsUndefined, JsStr(<<>>), JsNum("5"), JsStr(PurchaseText), JsObj(Purchase)},
     signature : {JsUndefined, JsStr(<<>>)} \cup {JsStr(<<"sig", s>>) : s \in Signers}]

Receipts ==
    ReceiptObjects \cup
    [type : {"undefined", "null", "string", "number"},
     data : {JsUndefined}, signature : {JsUndefined}]

DynamicKeys == {NoKey, <<"dynKey">>, <<"badKey">>}

\* options: undefined, or an object with its subscription flag.
Options == {"undefined", "subscription", "product"}

-----------------------------------------------------------------------------
(* getPublicKey, chunkSplit, validatePublicKey *)

\* chunkSplit(str, 64, '\n'): the chunks of str, each followed by the line end
\* (the key material of the model is shorter than one chunk).
chunkSplit(str) == str \o <<"\n">>

NoPem == <<>>

getPublicKey(publicKey) ==
    IF ~Truthy(publicKey) THEN NoPem
    ELSE <<"-----BEGIN PUBLIC KEY-----\n">> \o chunkSplit(publicKey)
             \o <<"-----END PUBLIC KEY-----\n">>

\* The key material inside a PEM envelope, as the verifier decodes it.
PemBody(pkey) == SubSeq(pkey, 2, Len(pkey) - 2)

\* The key pair a piece of key material belongs to; "malformed" is material
\* that is no key at all.
KeyPair(key) ==
    CASE key \in {<<"strLive">>, <<"fileLive">>, <<"envLive">>} -> "live"
      [] key \in {<<"strSandbox">>, <<"oldStrSandbox">>, <<"fileSandbox">>,
                  <<"envSandbox">>} -> "sandbox"
      [] key = <<"dynKey">> -> "dyn"
      [] OTHER -> "malformed"

\* validater.verify(pkey, receipt.signature, 'base64') after
\* validater.update(receipt.data): "throws" for a key that cannot be decoded,
\* else whether the signature is the one the key's holder made over the data.
cryptoVerify(pkey, data, signature) ==
    IF KeyPair(PemBody(pkey)) = "malformed" THEN "throws"
    ELSE IF /\ signature.type = "string"
            /\ signature.val = <<"sig", KeyPair(PemBody(pkey))>>
            /\ data.val = PurchaseText
         THEN "true"
         ELSE "false"

\* The verified payload and its later fields; NoData is no payload.
NoData ==
    [purchase |-> <<>>, status |-> "", service |-> "", autoRenewing |-> "",
     expirationTime |-> ""]

\* JSON.parse(receipt.data) of the signed text.
jsonParseReceipt(text) ==
    [NoData EXCEPT !.purchase = SubSeq(text, 2, Len(text) - 1)]

\* validatePublicKey(receipt, pkey, cb): the (error, data) it calls back with.
\* attempt names the call (the identity of the Error object it creates).
validatePublicKey(receipt, pkey, attempt) ==
    IF ~JsTruthy(receipt.data)
        THEN [error |-> Err(<<"missing receipt data">>, attempt), data |-> NoData]
    ELSE IF pkey = NoPem
        THEN [error |-> Err(<<"missing public key">>, attempt), data |-> NoData]
    ELSE IF TypeOf(receipt.data) # "string"
        THEN [error |-> Err(<<"receipt.data must be a string">>, attempt), data |-> NoData]
    ELSE IF cryptoVerify(pkey, receipt.data, receipt.signature) = "throws"
        THEN [error |-> Err(<<"crypto: cannot decode key">>, attempt), data |-> NoData]
    ELSE IF cryptoVerify(pkey, receipt.data, receipt.signature) = "true"
        THEN [error |-> NoError,
              data |-> [jsonParseReceipt(receipt.data.val) EXCEPT !.status = SUCCESS]]
    ELSE [error |-> Err(<<"failed to validate purchase">>, attempt), data |-> NoData]

-----------------------------------------------------------------------------
(* validatePurchase: the checks and the verification attempts *)

\* What a call gives the caller's callback: (error, result).  result is the
\* envelope {status, message} or the payload.
Envelope(msg) ==
    [status |-> FAILURE, message |-> msg, purchase |-> <<>>, service |-> "",
     autoRenewing |-> "", expirationTime |-> ""]

Payload(data) ==
    [status |-> data.status, message |-> <<>>, purchase |-> data.purchase,
     service |-> data.service, autoRenewing |-> data.autoRenewing,
     expirationTime |-> data.expirationTime]

CbArgs(error, result) == [error |-> error, result |-> result]

\* typeof receipt !== 'object'
notAnObject(receipt) == TypeOf(receipt) # "object"

\* receipt.data of a null receipt: a TypeError.
readsFieldOfNull(receipt) == receipt.type = "null"

\* !receipt.data || !receipt.signature
missingContent(receipt) == ~JsTruthy(receipt.data) \/ ~JsTruthy(receipt.signature)

\* JSON.stringify(receipt.data).replace(/\//g, '\\/') of an object-typed data.
escapeSlash(tok) == IF tok = "/" THEN "\\/" ELSE tok

stringifyData(data) ==
    JsStr(<<"{">> \o [i \in 1..Len(data.val) |-> escapeSlash(data.val[i])] \o <<"}">>)

canonicalReceipt(receipt) ==
    IF TypeOf(receipt.data) = "object"
        THEN [receipt EXCEPT !.data = stringifyData(receipt.data)]
        ELSE receipt

\* The key of the first attempt: the dynamically fed key, else the live key.
firstPubkey(dPubkey, pkm) == IF Truthy(dPubkey) THEN dPubkey ELSE pkm.live

\* Mutant of triesSandbox: the fallback looks at the live key's presence.
triesSandboxIfLiveKey(pkm) == Truthy(pkm.live)

\* After a failed first attempt: whether the sandbox key is tried.
triesSandbox(pkm) == Truthy(pkm.sandbox)

\* Mutant of totalFailureError: the last error wins.
totalFailureErrorLast(error, error2) == error2

\* The error given to the caller when the sandbox attempt failed too.
totalFailureError(error, error2) == error

-----------------------------------------------------------------------------
(* The remote endpoints *)

\* body.error of a response: absent, a string, or an object (text is what
\* String(error) gives, message its message property, <<>> when it has none).
NoErrVal == [type |-> "undefined", text |-> <<>>, message |-> <<>>]
ErrString(s) == [type |-> "string", text |-> s, message |-> <<>>]
ErrObject(m) == [type |-> "object", text |-> <<"[object Object]">>, message |-> m]

\* A response body as the program sees it: undefined, or an object.
NoBody ==
    [type |-> "undefined", hasError |-> FALSE, error |-> NoErrVal,
     autoRenewing |-> "", expiryTimeMillis |-> "", access_token |-> <<>>]
OkLookupBody(expiry) ==
    [NoBody EXCEPT !.type = "object", !.autoRenewing = "true", !.expiryTimeMillis = expiry]
ErrorBody(e) == [NoBody EXCEPT !.type = "object", !.hasError = TRUE, !.error = e]
OkTokenBody(tok) == [NoBody EXCEPT !.type = "object", !.access_token = tok]

\* The JSON text of an object, and no text at all.
JsonText(obj) == [type |-> "string", json |-> obj]
NoText == [type |-> "undefined", json |-> NoBody]

Response(error, body) == [error |-> error, body |-> body]

TransportError == Err(<<"ETIMEDOUT">>, "transport")

\* What the publisher API answers to getPurchaseInfo (a request with
\* json: true, so the body arrives parsed): the purchase, an error body, or
\* no answer at all.
LookupResponses ==
    {Response(NoError, OkLookupBody(t)) : t \in {"t1", "t2"}}
    \cup {Response(NoError, ErrorBody(ErrString(<<"invalid token">>))),
          Response(NoError, ErrorBody(ErrObject(<<"Invalid Credentials">>))),
          Response(TransportError, NoBody)}

\* What the token endpoint answers to refreshGoogleTokens: the body is JSON text.
RefreshResponses ==
    {Response(NoError, JsonText(OkTokenBody(tok))) : tok \in {<<"tokA">>, <<"tokB">>, NoToken}}
    \cup {Response(NoError, JsonText(ErrorBody(ErrString(<<"invalid_grant">>)))),
          Response(NoError, JsonText(ErrorBody(ErrObject(<<"Bad Request">>)))),
          Response(TransportError, NoText)}

\* JSON.parse(body)
jsonParseBody(text) == text.json

\* 'error' in body, for a body that is an object.
errorIn(body) == body.hasError

\* body.error.message || body.error, as the message of new Error(...).
bodyErrorMsg(body) ==
    IF Truthy(body.error.message) THEN body.error.message ELSE body.error.text

-----------------------------------------------------------------------------
(* One validatePurchase call *)

\* pc: "idle" no call yet; "getSubInfo", "recheck": a lookup is in flight and
\* that task's callback waits for it; "validate": the refresh is in flight;
\* "ended": nothing of the call is pending; "crashed": an exception left a
\* response callback uncaught.
\* state, data, isSubscription: the variables of checkPurchaseStatus.
\* bearer: the access token in the Authorization header of the lookup in flight.
\* The rest records the call: its arguments, the verification attempts (the
\* key and the error of each), the requests issued, the invocations of the
\* caller's callback, the exception that left the call, and in log the order
\* stored is the access token that the call's refresh has stored.
\* of its requests ("GET", "POST"), their answers ("GET:ok", "GET:fail",
\* "POST:ok", "POST:fail") and its end ("cb", "throw").
NoReceipt == [type |-> "undefined", data |-> JsUndefined, signature |-> JsUndefined]

IdleCall ==
    [pc |-> "idle", state |-> PENDING, data |-> NoData, isSubscription |-> FALSE,
     bearer |-> NoToken, stored |-> NoToken,
     dPubkey |-> NoKey, receipt |-> NoReceipt, options |-> "undefined",
     attempts |-> <<>>, lookups |-> 0, refreshes |-> 0,
     callbacks |-> <<>>, thrown |-> "", log |-> <<>>]

note(r, event) == [r EXCEPT !.log = Append(@, event)]

\* cb(error, result): the caller's callback is invoked.
invokeCb(r, error, result) ==
    [r EXCEPT !.callbacks = Append(@, CbArgs(error, result)), !.pc = "ended",
              !.log = Append(@, "cb")]

\* An exception leaves the run: to the caller from validatePurchase itself,
\* uncaught from a response callback.
throws(r, name) ==
    [r EXCEPT !.thrown = name, !.pc = IF @ = "start" THEN "ended" ELSE "crashed",
              !.log = Append(@, "throw")]

\* getPurchaseInfo(url, cb): the GET goes out with the current access token.
getPurchaseInfo(r, tokenMap, task) ==
    [r EXCEPT !.pc = task, !.bearer = tokenMap.accessToken, !.lookups = @ + 1,
              !.log = Append(@, "GET")]

\* refreshGoogleTokens(cb): the POST to the token endpoint goes out.
refreshGoogleTokens(r) ==
    [r EXCEPT !.pc = "validate", !.refreshes = @ + 1, !.log = Append(@, "POST")]

\* Mutant of done: a failure reports the error kept from the first
\* verification attempt when there is one.
doneWithData(r, error) == invokeCb(r, error, Payload(r.data))

doneWithFirstError(r, error) ==
    IF IsError(error)
        THEN IF r.attempts # <<>> /\ IsError(r.attempts[1].error)
                 THEN invokeCb(r, r.attempts[1].error, Envelope(r.attempts[1].error.message))
                 ELSE invokeCb(r, error, Envelope(error.message))
        ELSE invokeCb(r, NoError, Payload(r.data))

\* done(error): the final callback of the series.
done(r, error) ==
    IF IsError(error)
        THEN invokeCb(r, error, Envelope(error.message))
        ELSE invokeCb(r, NoError, Payload(r.data))

\* async.series: after a task calls next(error), the final callback runs with
\* the error if there is one, else the next task runs.
seriesNext(error, nextTask, final) == IF IsError(error) THEN final ELSE nextTask

\* recheck(next): the third task.
recheck(r, tokenMap) ==
    IF r.state = SUCCESS
        THEN getPurchaseInfo(r, tokenMap, "recheck")
        ELSE done([r EXCEPT !.state = FAILURE], NoError)

\* Mutant of validate: a failed lookup ends the series with an error.
validateAbortsOnFailure(r, tokenMap) ==
    CASE r.state = SUCCESS -> seriesNext(NoError, recheck(r, tokenMap), done(r, NoError))
      [] r.state = FAILURE -> done(r, Err(<<"lookup failed">>, "getSubInfo"))
      [] OTHER -> [r EXCEPT !.pc = "ended"]

\* validate(next): the second task.  After a successful lookup it calls
\* next(null, FAILURE) and leaves state as it is; after a failed one it sends
\* the refresh.
validate(r, tokenMap) ==
    CASE r.state = SUCCESS -> seriesNext(NoError, recheck(r, tokenMap), done(r, NoError))
      [] r.state = FAILURE -> refreshGoogleTokens(r)
      [] OTHER -> [r EXCEPT !.pc = "ended"]

\* getSubInfo(next): the first task.
getSubInfo(r, tokenMap) == getPurchaseInfo(r, tokenMap, "getSubInfo")

\* The copy of the subscription fields of a lookup body into data.
copySubscription(r, body) ==
    IF r.isSubscription
        THEN [r EXCEPT !.data.autoRenewing = body.autoRenewing,
                       !.data.expirationTime = body.expiryTimeMillis]
        ELSE r

\* isSubscription = (options && options.subscription)
isSubscriptionOf(options) == options = "subscription"

\* Mutant of checkPurchaseStatus: the checkPurchaseState guard is missing.
checkPurchaseStatusUnguarded(r, data, options, cps, tokenMap) ==
    getSubInfo([r EXCEPT !.data = [data EXCEPT !.service = GOOGLE],
                         !.isSubscription = isSubscriptionOf(options)],
               tokenMap)

\* checkPurchaseStatus(data, options, cb) up to its first request.
checkPurchaseStatus(r, data, options, cps, tokenMap) ==
    LET r1 == [r EXCEPT !.data = [data EXCEPT !.service = GOOGLE]]
    IN  IF ~cps
            THEN invokeCb(r1, NoError, Payload(r1.data))
            ELSE getSubInfo([r1 EXCEPT !.isSubscription = isSubscriptionOf(options)],
                            tokenMap)

\* validatePurchase(dPubkey, receipt, options, cb) up to its return.
validatePurchase(dPubkey, receipt, options, pkm, cps, tokenMap) ==
    LET r0 == [IdleCall EXCEPT !.pc = "start", !.dPubkey = dPubkey,
                               !.receipt = receipt, !.options = options]
    IN
    IF notAnObject(receipt)
        THEN invokeCb(r0, Err(<<"malformed receipt: ", receipt.type>>, "receipt"),
                      Envelope(<<"Malformed receipt">>))
    ELSE IF readsFieldOfNull(receipt)
        THEN throws(r0, "TypeError")
    ELSE IF missingContent(receipt)
        THEN invokeCb(r0, Err(<<"missing receipt data">>, "receipt"),
                      Envelope(<<"Malformed receipt">>))
    ELSE
    LET rc == canonicalReceipt(receipt)
        pubkey == firstPubkey(dPubkey, pkm)
        v1 == validatePublicKey(rc, getPublicKey(pubkey), "attempt1")
        r1 == [r0 EXCEPT !.attempts = <<[key |-> pubkey, error |-> v1.error]>>]
        v2 == validatePublicKey(rc, getPublicKey(pkm.sandbox), "attempt2")
        r2 == [r1 EXCEPT !.attempts = Append(@, [key |-> pkm.sandbox, error |-> v2.error])]
    IN
    IF IsError(v1.error)
        THEN IF ~triesSandbox(pkm)
                 THEN invokeCb(r1, v1.error, Envelope(v1.error.message))
             ELSE IF IsError(v2.error)
                 THEN invokeCb(r2, totalFailureError(v1.error, v2.error),
                               Envelope(totalFailureError(v1.error, v2.error).message))
             ELSE checkPurchaseStatus(r2, v2.data, options, cps, tokenMap)
        ELSE checkPurchaseStatus(r1, v1.data, options, cps, tokenMap)

\* The callback of getSubInfo's lookup.
getSubInfoCallback(r, resp, tokenMap) ==
    LET failed == note([r EXCEPT !.state = FAILURE], "GET:fail")
    IN
    IF IsError(resp.error)
        THEN seriesNext(NoError, validate(failed, tokenMap), done(failed, NoError))
    ELSE IF resp.body.type = "undefined"
        THEN throws(r, "TypeError")
    ELSE IF errorIn(resp.body)
        THEN seriesNext(NoError, validate(failed, tokenMap), done(failed, NoError))
    ELSE LET r1 == note([copySubscription(r, resp.body) EXCEPT !.state = SUCCESS], "GET:ok")
         IN  seriesNext(NoError, validate(r1, tokenMap), done(r1, NoError))

\* The access token a token-endpoint body without 'error' leaves in
\* googleTokenMap.
storedAccessToken(parsedBody) == parsedBody.access_token

\* Mutant of validateRefreshCallback: the 'error' in parsedBody check is
\* missing.
validateRefreshCallbackNoBodyCheck(r, resp, tokenMap) ==
    LET parsedBody == jsonParseBody(resp.body)
        newMap == [tokenMap EXCEPT !.accessToken = storedAccessToken(parsedBody)]
        r1 == note([r EXCEPT !.state = SUCCESS],
                   IF errorIn(parsedBody) THEN "POST:fail" ELSE "POST:ok")
    IN
    IF IsError(resp.error)
        THEN [call |-> invokeCb(note(r, "POST:fail"), resp.error,
                                Envelope(resp.error.message)),
              tokenMap |-> tokenMap]
        ELSE [call |-> seriesNext(NoError, recheck(r1, newMap), done(r1, NoError)),
              tokenMap |-> newMap]

\* Mutant of validateRefreshCallback: the new token is not stored, and the
\* recheck is sent with the token that is in googleTokenMap.
validateRefreshCallbackKeepsToken(r, resp, tokenMap) ==
    LET parsedBody == jsonParseBody(resp.body)
    IN
    IF IsError(resp.error)
        THEN [call |-> invokeCb(note(r, "POST:fail"), resp.error,
                                Envelope(resp.error.message)),
              tokenMap |-> tokenMap]
    ELSE IF errorIn(parsedBody)
        THEN [call |-> invokeCb(note(r, "POST:fail"),
                                Err(bodyErrorMsg(parsedBody), "refresh"),
                                Envelope(bodyErrorMsg(parsedBody))),
              tokenMap |-> tokenMap]
    ELSE LET r1 == note([r EXCEPT !.state = SUCCESS,
                                  !.stored = storedAccessToken(parsedBody)], "POST:ok")
         IN  [call |-> seriesNext(NoError, recheck(r1, tokenMap), done(r1, NoError)),
              tokenMap |-> tokenMap]

\* Mutant of validateRefreshCallback: the token is stored after next() has
\* run recheck.
validateRefreshCallbackStoresLate(r, resp, tokenMap) ==
    LET parsedBody == jsonParseBody(resp.body)
        newMap == [tokenMap EXCEPT !.accessToken = storedAccessToken(parsedBody)]
    IN
    IF IsError(resp.error)
        THEN [call |-> invokeCb(note(r, "POST:fail"), resp.error,
                                Envelope(resp.error.message)),
              tokenMap |-> tokenMap]
    ELSE IF errorIn(parsedBody)
        THEN [call |-> invokeCb(note(r, "POST:fail"),
                                Err(bodyErrorMsg(parsedBody), "refresh"),
                                Envelope(bodyErrorMsg(parsedBody))),
              tokenMap |-> tokenMap]
    ELSE LET r1 == note([r EXCEPT !.state = SUCCESS,
                                  !.stored = storedAccessToken(parsedBody)], "POST:ok")
         IN  [call |-> seriesNext(NoError, recheck(r1, tokenMap), done(r1, NoError)),
              tokenMap |-> newMap]

\* The callback of validate's refresh: the call, and googleTokenMap after it.
validateRefreshCallback(r, resp, tokenMap) ==
    LET parsedBody == jsonParseBody(resp.body)
        newMap == [tokenMap EXCEPT !.accessToken = storedAccessToken(parsedBody)]
    IN
    IF IsError(resp.error)
        THEN [call |-> invokeCb(note(r, "POST:fail"), resp.error,
                                Envelope(resp.error.message)),
              tokenMap |-> tokenMap]
    ELSE IF errorIn(parsedBody)
        THEN [call |-> invokeCb(note(r, "POST:fail"),
                                Err(bodyErrorMsg(parsedBody), "refresh"),
                                Envelope(bodyErrorMsg(parsedBody))),
              tokenMap |-> tokenMap]
    ELSE LET r1 == note([r EXCEPT !.state = SUCCESS,
                                  !.stored = storedAccessToken(parsedBody)], "POST:ok")
         IN  [call |-> seriesNext(NoError, recheck(r1, newMap), done(r1, NoError)),
              tokenMap |-> newMap]

\* Mutant of recheckCallback: a failed recheck refreshes the token again.
recheckCallbackRetries(r, resp) ==
    IF IsError(resp.error) \/ errorIn(resp.body)
        THEN refreshGoogleTokens(note([r EXCEPT !.state = FAILURE], "GET:fail"))
        ELSE done(note([copySubscription(r, resp.body) EXCEPT !.state = SUCCESS], "GET:ok"),
                  NoError)

\* The callback of recheck's lookup.
recheckCallback(r, resp) ==
    IF IsError(resp.error) \/ (resp.body.type # "undefined" /\ errorIn(resp.body))
        THEN IF resp.body.type = "undefined" \/ resp.body.error.type = "undefined"
                 THEN throws(note(r, "GET:fail"), "TypeError")
                 ELSE LET r1 == note([r EXCEPT !.state = FAILURE], "GET:fail")
                          error == IF IsError(resp.error) THEN resp.error
                                   ELSE Err(bodyErrorMsg(resp.body), "recheck")
                      IN  seriesNext(error, done(r1, NoError), done(r1, error))
    ELSE IF resp.body.type = "undefined"
        THEN throws(r, "TypeError")
    ELSE LET r1 == note([copySubscription(r, resp.body) EXCEPT !.state = SUCCESS], "GET:ok")
         IN  seriesNext(NoError, done(r1, NoError), done(r1, NoError))

-----------------------------------------------------------------------------
(* refreshToken, the exported operation *)

\* pc: "idle", "refreshing" (the POST is in flight), "ended".  requests counts
\* the POSTs of the call; callbacks are the invocations of its callback;
\* answer is the error value of the body it was answered with.
IdleRefresh ==
    [pc |-> "idle", requests |-> 0, callbacks |-> <<>>, answer |-> NoErrVal]

\* What refreshToken gives its callback as result: the envelope {status,
\* message}, or the parsed body of the token endpoint.
RefreshEnvelope(msg) == [status |-> FAILURE, message |-> msg, access_token |-> <<>>]
RefreshBody(parsedBody) ==
    [status |-> "", message |-> <<>>, access_token |-> parsedBody.access_token]

refreshCb(r, error, result) ==
    [r EXCEPT !.callbacks = Append(@, CbArgs(error, result)), !.pc = "ended"]

\* new Error(parsedBody.error) and message: parsedBody.error.
rawErrorMsg(body) == body.error.text

refreshTokenUnguarded(cps) ==
    [IdleRefresh EXCEPT !.pc = "refreshing", !.requests = @ + 1]

\* refreshToken(cb) up to its return.
refreshToken(cps) ==
    IF ~cps
        THEN refreshCb(IdleRefresh, Err(<<"missing google play api info">>, "config"),
                 RefreshEnvelope(<<"client_id, client_secret, access_token and refres_token should be provided">>))
        ELSE [IdleRefresh EXCEPT !.pc = "refreshing", !.requests = @ + 1]

\* Mutant of refreshTokenCallback: the access_token of the body is stored
\* also when the body has an error.
refreshTokenCallbackStoresAlways(r, resp, tokenMap) ==
    LET parsedBody == jsonParseBody(resp.body)
        newMap == [tokenMap EXCEPT !.accessToken = storedAccessToken(parsedBody)]
    IN
    IF IsError(resp.error)
        THEN [rt |-> refreshCb(r, resp.error, RefreshEnvelope(resp.error.message)),
              tokenMap |-> tokenMap]
    ELSE IF errorIn(parsedBody)
        THEN [rt |-> refreshCb([r EXCEPT !.answer = parsedBody.error],
                               Err(rawErrorMsg(parsedBody), "refreshToken"),
                               RefreshEnvelope(rawErrorMsg(parsedBody))),
              tokenMap |-> newMap]
    ELSE [rt |-> refreshCb(r, NoError, RefreshBody(parsedBody)),
          tokenMap |-> newMap]

\* The callback of refreshToken's POST: the call, and googleTokenMap after it.
refreshTokenCallback(r, resp, tokenMap) ==
    LET parsedBody == jsonParseBody(resp.body)
    IN
    IF IsError(resp.error)
        THEN [rt |-> refreshCb(r, resp.error, RefreshEnvelope(resp.error.message)),
              tokenMap |-> tokenMap]
    ELSE IF errorIn(parsedBody)
        THEN [rt |-> refreshCb([r EXCEPT !.answer = parsedBody.error],
                               Err(rawErrorMsg(parsedBody), "refreshToken"),
                               RefreshEnvelope(rawErrorMsg(parsedBody))),
              tokenMap |-> tokenMap]
    ELSE [rt |-> refreshCb(r, NoError, RefreshBody(parsedBody)),
          tokenMap |-> [tokenMap EXCEPT !.accessToken = storedAccessToken(parsedBody)]]

NotObserved == [seen |-> FALSE, env |-> [SANDBOX |-> <<>>, LIVE |-> <<>>],
                files |-> [sandbox |-> <<>>, live |-> <<>>]]

-----------------------------------------------------------------------------
(* The state machine *)

VARIABLES
    phase,              \* "loaded", "configured" (readConfig ran), "ready" (setup ran)
    config, keyPathMap, publicKeyMap, googleTokenMap, checkPurchaseState,
    call,               \* call[c]: the validatePurchase call in slot c
    started,            \* validatePurchase invocations so far
    rt,                 \* the refreshToken call (the exported operation)
    observed            \* the environment and the files that setup has read

vars == <<phase, config, keyPathMap, publicKeyMap, googleTokenMap,
          checkPurchaseState, call, started, rt, observed>>

Init ==
    /\ phase = "loaded"
    /\ config = NullConfig
    /\ keyPathMap = NoKeyMap
    /\ publicKeyMap = NoKeyMap
    /\ googleTokenMap = NoTokenMap
    /\ checkPurchaseState = FALSE
    /\ call = [c \in Calls |-> IdleCall]
    /\ started = 0
    /\ rt = IdleRefresh
    /\ observed = NotObserved

\* No exception has taken the process down.
Alive == \A c \in Calls : call[c].pc # "crashed"

ReadConfig(configIn) ==
    /\ phase = "loaded"
    /\ phase' = "configured"
    /\ config' = readConfigConfig(configIn, config)
    /\ IF config'.isNull
           THEN UNCHANGED <<keyPathMap, googleTokenMap, checkPurchaseState>>
           ELSE /\ keyPathMap' = readConfigKeyPathMap(config')
                /\ IF hasCredentials(config')
                       THEN /\ googleTokenMap' = readConfigTokenMap(config')
                            /\ checkPurchaseState' = TRUE
                       ELSE UNCHANGED <<googleTokenMap, checkPurchaseState>>
    /\ UNCHANGED <<publicKeyMap, call, started, rt, observed>>

\* setup(cb), up to cb().
SetupRun(env, files) ==
    /\ phase \in {"loaded", "configured"}
    /\ phase' = "ready"
    /\ publicKeyMap' = setupKeys(config, keyPathMap, env, files, publicKeyMap)
    /\ UNCHANGED <<config, keyPathMap, googleTokenMap, checkPurchaseState, call, started, rt>>

Setup(env, files) == SetupRun(env, files) /\ UNCHANGED observed

\* setup, with what it read kept for the properties of setup.
SetupObserved(env, files) ==
    SetupRun(env, files) /\ observed' = [seen |-> TRUE, env |-> env, files |-> files]

ValidatePurchase(c, dPubkey, receipt, options) ==
    /\ phase = "ready"
    /\ Alive
    /\ call[c].pc = "idle"
    /\ started < MaxCalls
    /\ started' = started + 1
    /\ call' = [call EXCEPT ![c] = validatePurchase(dPubkey, receipt, options,
                                       publicKeyMap, checkPurchaseState, googleTokenMap)]
    /\ UNCHANGED <<phase, config, keyPathMap, publicKeyMap, googleTokenMap,
                   checkPurchaseState, rt, observed>>

GetSubInfoResponse(c, resp) ==
    /\ Alive
    /\ call[c].pc = "getSubInfo"
    /\ call' = [call EXCEPT ![c] = getSubInfoCallback(call[c], resp, googleTokenMap)]
    /\ UNCHANGED <<phase, config, keyPathMap, publicKeyMap, googleTokenMap,
                   checkPurchaseState, started, rt, observed>>

RefreshResponse(c, resp) ==
    /\ Alive
    /\ call[c].pc = "validate"
    /\ call' = [call EXCEPT ![c] = validateRefreshCallback(call[c], resp, googleTokenMap).call]
    /\ googleTokenMap' = validateRefreshCallback(call[c], resp, googleTokenMap).tokenMap
    /\ UNCHANGED <<phase, config, keyPathMap, publicKeyMap, checkPurchaseState, started,
                   rt, observed>>

RecheckResponse(c, resp) ==
    /\ Alive
    /\ call[c].pc = "recheck"
    /\ call' = [call EXCEPT ![c] = recheckCallback(call[c], resp)]
    /\ UNCHANGED <<phase, config, keyPathMap, publicKeyMap, googleTokenMap,
                   checkPurchaseState, started, rt, observed>>

\* The caller is done with an ended call: its slot is free for the next call.
\* Nothing of the program changes; only the record of the call is dropped.
Forget(c) ==
    /\ call[c].pc = "ended"
    /\ call' = [call EXCEPT ![c] = IdleCall]
    /\ UNCHANGED <<phase, config, keyPathMap, publicKeyMap, googleTokenMap,
                   checkPurchaseState, started, rt, observed>>

RefreshToken ==
    /\ phase = "ready"
    /\ Alive
    /\ rt.pc = "idle"
    /\ rt' = refreshToken(checkPurchaseState)
    /\ UNCHANGED <<phase, config, keyPathMap, publicKeyMap, googleTokenMap,
                   checkPurchaseState, call, started, observed>>

RefreshTokenResponse(resp) ==
    /\ Alive
    /\ rt.pc = "refreshing"
    /\ rt' = refreshTokenCallback(rt, resp, googleTokenMap).rt
    /\ googleTokenMap' = refreshTokenCallback(rt, resp, googleTokenMap).tokenMap
    /\ UNCHANGED <<phase, config, keyPathMap, publicKeyMap, checkPurchaseState, call,
                   started, observed>>

\* The caller is done with an ended refreshToken call.
ForgetRefresh ==
    /\ rt.pc = "ended"
    /\ rt' = IdleRefresh
    /\ UNCHANGED <<phase, config, keyPathMap, publicKeyMap, googleTokenMap,
                   checkPurchaseState, call, started, observed>>

Next ==
    \/ \E configIn \in ConfigIns : ReadConfig(configIn)
    \/ \E env \in Envs, files \in FileSystems : Setup(env, files)
    \/ \E c \in SeqCalls, dPubkey \in DynamicKeys, receipt \in Receipts, options \in Options :
           ValidatePurchase(c, dPubkey, receipt, options)
    \/ \E c \in SeqCalls, resp \in LookupResponses : GetSubInfoResponse(c, resp)
    \/ \E c \in SeqCalls, resp \in RefreshResponses : RefreshResponse(c, resp)
    \/ \E c \in SeqCalls, resp \in LookupResponses : RecheckResponse(c, resp)
    \/ \E c \in SeqCalls : Forget(c)

Spec == Init /\ [][Next]_vars

\* Configuration, setup and the exported refreshToken, without purchases.
NextConfig ==
    \/ \E configIn \in ConfigIns : ReadConfig(configIn)
    \/ \E env \in Envs, files \in FileSystems : SetupObserved(env, files)
    \/ RefreshToken
    \/ \E resp \in RefreshResponses : RefreshTokenResponse(resp)
    \/ ForgetRefresh

SpecConfig == Init /\ [][NextConfig]_vars

\* Concurrent use: the module is configured with the four credentials and
\* the live key, and then serves validatePurchase calls in both slots and
\* refreshToken calls, whose callbacks interleave in any order.
ConcConfigIns ==
    {configIn \in ConfigIns :
        /\ configIn.given
        /\ configIn.googlePublicKeyStrLive = <<"strLive">>
        /\ configIn.googlePublicKeyStrSandbox = <<>>
        /\ configIn.publicKeyStrSandbox = <<>>
        /\ configIn.googlePublicKeyPath = <<>>
        /\ configIn.googleAccToken = <<"tok0">>
        /\ configIn.googleClientSecret = <<"secret0">>}

ConcReceipts ==
    {receipt \in ReceiptObjects :
        receipt.data = JsStr(PurchaseText) /\ receipt.signature = JsStr(<<"sig", "live">>)}

NextConc ==
    \/ \E configIn \in ConcConfigIns : ReadConfig(configIn)
    \/ \E env \in Envs, files \in FileSystems : Setup(env, files)
    \/ \E c \in Calls, receipt \in ConcReceipts :
           ValidatePurchase(c, NoKey, receipt, "subscription")
    \/ \E c \in Calls, resp \in LookupResponses : GetSubInfoResponse(c, resp)
    \/ \E c \in Calls, resp \in RefreshResponses : RefreshResponse(c, resp)
    \/ \E c \in Calls, resp \in LookupResponses : RecheckResponse(c, resp)
    \/ \E c \in Calls : Forget(c)
    \/ RefreshToken
    \/ \E resp \in RefreshResponses : RefreshTokenResponse(resp)
    \/ ForgetRefresh

SpecConc == Init /\ [][NextConc]_vars

-----------------------------------------------------------------------------
(* Properties *)

\* The calls that have started.
Active == {c \in Calls : call[c].pc # "idle"}

\* The single invocation of the caller's callback, for a call that has one.
TheCb(c) == call[c].callbacks[1]

\* C1: a validatePurchase call issues at most 2 remote status lookups
\* (getPurchaseInfo) and at most 1 credential refresh (refreshGoogleTokens),
\* whatever the remote calls answer.
C1_AtMostTwoLookupsOneRefresh ==
    \A c \in Calls : call[c].lookups <= 2 /\ call[c].refreshes <= 1

\* C1 witness: a call that used the whole budget, two lookups and a refresh.
C1_Witness ==
    \E c \in Calls : call[c].lookups = 2 /\ call[c].refreshes = 1 /\ call[c].pc = "ended"

\* C2 (as claimed): a second lookup is issued only after a successful
\* credential refresh; after a successful first lookup the call ends with
\* (null, payload) and exactly one lookup.
C2_SecondLookupOnlyAfterRefresh ==
    \A c \in Calls :
        /\ call[c].lookups >= 2 => call[c].refreshes = 1
        /\ (Len(call[c].log) >= 2 /\ call[c].log[2] = "GET:ok") =>
               /\ call[c].log = <<"GET", "GET:ok", "cb">>
               /\ ~IsError(TheCb(c).error)

\* C3: when the first lookup fails (transport error or error body) the call
\* goes on: exactly one refresh is issued; if the refresh succeeds exactly one
\* more lookup follows it; if that lookup succeeds the caller gets
\* (null, payload) after one refresh and two lookups.
C3_FailedLookupRefreshesAndRechecks ==
    \A c \in Calls :
        LET log == call[c].log IN
        (Len(log) >= 2 /\ log[2] = "GET:fail") =>
            /\ Len(log) >= 3 /\ log[3] = "POST"
            /\ call[c].refreshes = 1
            /\ (Len(log) >= 4 /\ log[4] = "POST:ok") =>
                   /\ Len(log) >= 5 /\ log[5] = "GET"
                   /\ call[c].lookups = 2
            /\ (Len(log) >= 6 /\ log[6] = "GET:ok") =>
                   /\ log = <<"GET", "GET:fail", "POST", "POST:ok", "GET", "GET:ok", "cb">>
                   /\ call[c].callbacks = <<CbArgs(NoError, Payload(call[c].data))>>
                   /\ TheCb(c).result.status = SUCCESS
                   /\ TheCb(c).result.purchase = Purchase

\* C3 witness: first lookup failed, refresh and recheck succeeded, the caller
\* has the payload.
C3_Witness ==
    \E c \in Calls :
        /\ call[c].log = <<"GET", "GET:fail", "POST", "POST:ok", "GET", "GET:ok", "cb">>
        /\ call[c].isSubscription
        /\ TheCb(c).result.expirationTime = "t2"

\* C4: when the first lookup fails and the refresh fails too (transport error
\* or error body), the call ends at once: the caller gets (Error, {status:
\* FAILURE, message}), no recheck lookup is issued and the refresh is not
\* repeated.
C4_FailedRefreshAborts ==
    \A c \in Calls :
        LET log == call[c].log IN
        (Len(log) >= 4 /\ log[4] = "POST:fail") =>
            /\ log = <<"GET", "GET:fail", "POST", "POST:fail", "cb">>
            /\ call[c].pc = "ended"
            /\ call[c].lookups = 1 /\ call[c].refreshes = 1
            /\ Len(call[c].callbacks) = 1
            /\ IsError(TheCb(c).error)
            /\ TheCb(c).result = Envelope(TheCb(c).error.message)

\* C4 witness: a refresh that the token endpoint answered with an error body.
C4_Witness ==
    \E c \in Calls :
        /\ Len(call[c].log) >= 4 /\ call[c].log[4] = "POST:fail"
        /\ TheCb(c).error.origin = "refresh"

\* The last verification attempt of a call succeeded.
Verified(c) ==
    /\ call[c].attempts # <<>>
    /\ ~IsError(call[c].attempts[Len(call[c].attempts)].error)

\* C5: when checkPurchaseState is false, a receipt whose signature verifies
\* yields (null, payload) with status SUCCESS and service GOOGLE, and the call
\* makes no HTTP call (no lookup, no refresh).
C5_PassThroughWithoutCredentials ==
    ~checkPurchaseState =>
        \A c \in Calls :
            /\ call[c].lookups = 0 /\ call[c].refreshes = 0
            /\ Verified(c) =>
                   /\ Len(call[c].callbacks) = 1
                   /\ ~IsError(TheCb(c).error)
                   /\ TheCb(c).result.status = SUCCESS
                   /\ TheCb(c).result.service = GOOGLE
                   /\ TheCb(c).result.purchase = Purchase

\* C5 witness: a verified receipt with no credentials configured.
C5_Witness ==
    \E c \in Calls : ~checkPurchaseState /\ Verified(c) /\ call[c].pc = "ended"

\* A receipt that is not an object, or lacks data or signature.
MalformedReceipt(receipt) ==
    \/ receipt.type # "object"
    \/ ~JsTruthy(receipt.data)
    \/ ~JsTruthy(receipt.signature)

\* C6 (as claimed): for a receipt that is not an object (undefined, null, a
\* string, a number) or that lacks data or signature, validatePurchase calls
\* back with an Error and a {status: FAILURE} envelope, and performs no
\* signature verification and no remote call.
C6_MalformedReceiptRejected ==
    \A c \in Active :
        MalformedReceipt(call[c].receipt) =>
            /\ Len(call[c].callbacks) = 1
            /\ IsError(TheCb(c).error)
            /\ TheCb(c).result.status = FAILURE
            /\ call[c].attempts = <<>>
            /\ call[c].lookups = 0 /\ call[c].refreshes = 0

\* Every verification attempt of the call failed.
TotalFailure(c) ==
    /\ call[c].attempts # <<>>
    /\ \A i \in 1..Len(call[c].attempts) : IsError(call[c].attempts[i].error)

\* C7: on total verification failure the caller gets the error of the first
\* attempt (live key or dynamic override), with no sandbox key configured and
\* also when the sandbox attempt failed too; result.message is the first
\* attempt's message and the sandbox attempt's error is not reported.
C7_FirstAttemptErrorReported ==
    \A c \in Calls :
        TotalFailure(c) =>
            /\ Len(call[c].callbacks) = 1
            /\ TheCb(c).error = call[c].attempts[1].error
            /\ TheCb(c).error.origin = "attempt1"
            /\ TheCb(c).result = Envelope(call[c].attempts[1].error.message)

\* C7 witness: both attempts failed, with different errors.
C7_Witness ==
    \E c \in Calls :
        /\ Len(call[c].attempts) = 2
        /\ TotalFailure(c)
        /\ call[c].attempts[1].error.message # call[c].attempts[2].error.message
        /\ Len(call[c].callbacks) = 1

\* C8: the first attempt uses the dynamic override key if supplied, else the
\* live key; the sandbox key is tried if and only if the first attempt failed
\* and a sandbox key exists (also after a failed dynamic override); no call
\* verifies more than twice.
C8_FallbackPolicy ==
    \A c \in Calls :
        LET a == call[c].attempts IN
        /\ Len(a) <= 2
        /\ a # <<>> =>
               /\ a[1].key = IF Truthy(call[c].dPubkey) THEN call[c].dPubkey
                             ELSE publicKeyMap.live
               /\ Len(a) = 2 <=> (IsError(a[1].error) /\ Truthy(publicKeyMap.sandbox))
               /\ Len(a) = 2 => a[2].key = publicKeyMap.sandbox

\* C8 witness: a dynamic override failed and the sandbox key was tried.
C8_Witness ==
    \E c \in Calls :
        /\ Len(call[c].attempts) = 2
        /\ Truthy(call[c].dPubkey)
        /\ ~IsError(call[c].attempts[2].error)

\* The first attempt failed and the sandbox attempt succeeded.
SandboxVerified(c) ==
    /\ Len(call[c].attempts) = 2
    /\ IsError(call[c].attempts[1].error)
    /\ ~IsError(call[c].attempts[2].error)

\* C9: when the first verification fails and the sandbox one succeeds, the
\* reconciliation runs on the sandbox-verified payload, and an error that a
\* later stage (lookup, refresh, recheck) gives the caller is that stage's
\* error, never the error of the first attempt.
C9_LaterStageErrorReported ==
    \A c \in Calls :
        SandboxVerified(c) =>
            /\ call[c].data.purchase = Purchase
            /\ call[c].data.service = GOOGLE
            /\ checkPurchaseState => call[c].lookups >= 1
            /\ \A i \in 1..Len(call[c].callbacks) :
                   LET cb == call[c].callbacks[i] IN
                   IsError(cb.error) =>
                       /\ cb.error.origin \in {"transport", "refresh", "recheck"}
                       /\ cb.error # call[c].attempts[1].error
                       /\ cb.result = Envelope(cb.error.message)

\* C9 witness: sandbox-verified, then the recheck failed and the caller got
\* its error.
C9_Witness ==
    \E c \in Calls :
        /\ SandboxVerified(c)
        /\ Len(call[c].callbacks) = 1
        /\ TheCb(c).error.origin = "recheck"

\* C10 (as claimed): every error comes through the callback: whatever the
\* remote calls answer (a body, an error body, a transport error without
\* body), no step of a call raises an exception, and the call ends with its
\* callback invoked exactly once.  Stated for the calls whose receipt has
\* passed the input checks.
C10_ErrorsOnlyThroughCallback ==
    \A c \in Active :
        ~MalformedReceipt(call[c].receipt) =>
            /\ call[c].thrown = ""
            /\ Len(call[c].callbacks) <= 1
            /\ call[c].pc \in {"ended", "crashed"} => Len(call[c].callbacks) = 1

\* C11: at every invocation of the callback of validatePurchase the error is
\* null exactly when the result's status is SUCCESS, and with an error the
\* result is an envelope {status: FAILURE, message} with a message, which
\* carries none of the fields of the verified payload.
C11_ErrorIffNotSuccess ==
    \A c \in Calls :
        \A i \in 1..Len(call[c].callbacks) :
            LET cb == call[c].callbacks[i] IN
            /\ ~IsError(cb.error) <=> cb.result.status = SUCCESS
            /\ IsError(cb.error) =>
                   /\ cb.result = Envelope(cb.result.message)
                   /\ Truthy(cb.result.message)
                   /\ cb.result # Payload(call[c].data)

\* C11 witness: a receipt was verified (the payload exists) and a later stage
\* then gave the caller an error.
C11_Witness ==
    \E c \in Calls :
        /\ Verified(c)
        /\ Len(call[c].callbacks) = 1
        /\ IsError(TheCb(c).error)
        /\ call[c].data.status = SUCCESS

\* C12: when the four credentials were not all configured (checkPurchaseState
\* is false), a refreshToken call ends within the call itself with the
\* configuration error 'missing google play api info' and a FAILURE envelope,
\* no POST to the token endpoint is ever issued, and googleTokenMap stays as
\* it was (empty).
C12_RefreshTokenNeedsCredentials ==
    ~checkPurchaseState =>
        /\ rt.requests = 0
        /\ rt.pc # "refreshing"
        /\ googleTokenMap = NoTokenMap
        /\ rt.pc = "ended" =>
               /\ Len(rt.callbacks) = 1
               /\ rt.callbacks[1].error = Err(<<"missing google play api info">>, "config")
               /\ rt.callbacks[1].result.status = FAILURE
               /\ rt.callbacks[1].result = RefreshEnvelope(rt.callbacks[1].result.message)

\* C12 witness: refreshToken was called although only a part of the
\* credentials was configured, and has ended.
C12_Witness ==
    /\ ~checkPurchaseState
    /\ Truthy(config.googleAccToken)
    /\ rt.pc = "ended"

\* C13 (as claimed): when the body of the token endpoint has an 'error'
\* field, refreshToken fails with the text that the refresh inside
\* checkPurchaseStatus reports for the same body: the nested error.message
\* when there is one, else the raw error value; and the envelope carries the
\* same text.
C13_SameErrorTextOnBothPaths ==
    (rt.pc = "ended" /\ rt.answer # NoErrVal) =>
        /\ IsError(rt.callbacks[1].error)
        /\ rt.callbacks[1].error.message = bodyErrorMsg(ErrorBody(rt.answer))
        /\ rt.callbacks[1].result = RefreshEnvelope(bodyErrorMsg(ErrorBody(rt.answer)))

\* A step in which call c has issued a lookup.
IssuesLookup(c) == call'[c].lookups = call[c].lookups + 1

\* A step in which the refresh of call c has succeeded.
RefreshSucceeds(c) ==
    /\ Len(call'[c].log) >= Len(call[c].log) + 1
    /\ call'[c].log[Len(call[c].log) + 1] = "POST:ok"

\* A step in which a refreshToken call has succeeded.
RefreshTokenSucceeds ==
    /\ rt.pc = "refreshing"
    /\ rt'.pc = "ended"
    /\ ~IsError(rt'.callbacks[1].error)

\* C14: a successful refresh stores the new access token in the step that
\* receives the answer, before the next task or the caller runs: the recheck
\* lookup that follows in the same call carries that token, and every lookup
\* carries the access token that is in googleTokenMap when it is issued.
C14_TokenStoredBeforeNextLookup ==
    [][(\A c \in Calls :
            /\ RefreshSucceeds(c) =>
                   (/\ googleTokenMap'.accessToken = call'[c].stored
                    /\ IssuesLookup(c)
                    /\ call'[c].bearer = call'[c].stored)
            /\ IssuesLookup(c) => (call'[c].bearer = googleTokenMap'.accessToken))
       /\ (RefreshTokenSucceeds =>
               googleTokenMap'.accessToken = rt'.callbacks[1].result.access_token)]_vars

\* C14 witness: the token was tok0, the refresh of a call stored tokA, and
\* the recheck lookup of that call is on its way with tokA.
C14_Witness ==
    \E c \in Calls :
        /\ call[c].log = <<"GET", "GET:fail", "POST", "POST:ok", "GET">>
        /\ call[c].pc = "recheck"
        /\ call[c].stored = <<"tokA">>
        /\ call[c].bearer = <<"tokA">>
        /\ config.googleAccToken = <<"tok0">>

\* What setup could read for a tag: the key string of config, the key file
\* under googlePublicKeyPath without the white space that ends it, and the
\* environment variable without the letters s that end it.
StringFor(tag) ==
    IF config.isNull THEN NoKey
    ELSE IF tag = "live" THEN config.googlePublicKeyStrLive
    ELSE config.googlePublicKeyStrSandbox

FileFor(tag) ==
    IF config.isNull \/ ~Truthy(config.googlePublicKeyPath) THEN NoKey
    ELSE replaceTrailingSpace(observed.files[tag])

EnvFor(tag) ==
    replaceTrailingS(IF tag = "live" THEN observed.env.LIVE ELSE observed.env.SANDBOX)

Tags == {"live", "sandbox"}

\* C15 (as claimed): after setup each tag has the first source that is
\* present for that tag, in the order key string, key file, environment
\* variable, whatever the other tag was given.
C15_PerTagPrecedence ==
    (phase = "ready" /\ observed.seen) =>
        \A tag \in Tags :
            publicKeyMap[tag] =
                IF Truthy(StringFor(tag)) THEN StringFor(tag)
                ELSE IF Truthy(FileFor(tag)) THEN FileFor(tag)
                ELSE EnvFor(tag)

\* The one source setup reads, for both tags.
SetupSource ==
    IF \E tag \in Tags : Truthy(StringFor(tag)) THEN "string"
    ELSE IF ~config.isNull /\ Truthy(config.googlePublicKeyPath) THEN "file"
    ELSE "env"

\* C15 (amended): setup reads one source for both tags: the key strings when
\* config has a key string for either tag, else the key files when
\* googlePublicKeyPath is configured, else the environment variables.  After
\* setup each tag has what that source holds for it and is unconfigured when
\* the source holds nothing for it; a missing key file leaves its tag
\* unconfigured and setup completes.
C15_OneSourceForBothTags ==
    observed.seen =>
        /\ phase = "ready"
        /\ \A tag \in Tags :
               publicKeyMap[tag] =
                   CASE SetupSource = "string" -> StringFor(tag)
                     [] SetupSource = "file" -> FileFor(tag)
                     [] SetupSource = "env" -> EnvFor(tag)

\* C15 witness: the live tag was given as a key string, the sandbox tag has
\* both a key file and an environment variable, and after setup the sandbox
\* tag is unconfigured.
C15_Witness ==
    /\ phase = "ready"
    /\ observed.seen
    /\ Truthy(StringFor("live"))
    /\ ~Truthy(StringFor("sandbox"))
    /\ Truthy(FileFor("sandbox"))
    /\ Truthy(EnvFor("sandbox"))
    /\ publicKeyMap.live = StringFor("live")
    /\ publicKeyMap.sandbox = NoKey

\* The refresh of call c is in flight.
Refreshing(c) == call[c].pc = "validate"

RecheckFailed(c) ==
    \E i \in 1..Len(call[c].log) :
        /\ i >= 3
        /\ call[c].log[i] = "GET:fail"

\* C17 (as claimed): when the recheck lookup fails, by a transport error or
\* by a body with 'error', the call ends with its callback invoked once with
\* (Error, {status: FAILURE, message}), and no lookup or refresh follows.
C17_FailedRecheckEndsWithError ==
    \A c \in Calls :
        RecheckFailed(c) =>
            /\ call[c].pc = "ended"
            /\ call[c].thrown = ""
            /\ Len(call[c].callbacks) = 1
            /\ IsError(TheCb(c).error)
            /\ TheCb(c).result = Envelope(TheCb(c).error.message)
            /\ call[c].lookups = 2
            /\ call[c].refreshes <= 1

\* A step in which the refresh of call c has failed.
RefreshFails(c) ==
    /\ Len(call'[c].log) >= Len(call[c].log) + 1
    /\ call'[c].log[Len(call[c].log) + 1] = "POST:fail"

\* A step in which a refreshToken call that had issued its POST has failed.
RefreshTokenFails ==
    /\ rt.pc = "refreshing"
    /\ rt'.pc = "ended"
    /\ IsError(rt'.callbacks[1].error)

\* C18: once setup is done, no step of a validatePurchase or refreshToken
\* call changes refreshToken, clientID or clientSecret of googleTokenMap;
\* accessToken changes only in a step in which a refresh (of a call or of
\* refreshToken) succeeds, and a step in which a refresh fails leaves it as
\* it was.
C18_OnlySuccessfulRefreshWritesToken ==
    [][phase = "ready" =>
          (/\ googleTokenMap'.refreshToken = googleTokenMap.refreshToken
           /\ googleTokenMap'.clientID = googleTokenMap.clientID
           /\ googleTokenMap'.clientSecret = googleTokenMap.clientSecret
           /\ googleTokenMap'.accessToken # googleTokenMap.accessToken =>
                  ((\E c \in Calls : RefreshSucceeds(c)) \/ RefreshTokenSucceeds)
           /\ ((\E c \in Calls : RefreshFails(c)) \/ RefreshTokenFails) =>
                  googleTokenMap'.accessToken = googleTokenMap.accessToken)]_vars

\* C18 witness: a refresh of a call replaced the configured token, and a
\* refreshToken call has then failed on an error body and left the token
\* and the three other fields as they were.
C18_Witness ==
    /\ \E c \in Calls : call[c].stored = <<"tokA">>
    /\ rt.pc = "ended"
    /\ rt.answer # NoErrVal
    /\ googleTokenMap = [accessToken |-> <<"tokA">>, refreshToken |-> <<"ref0">>,
                         clientID |-> <<"id0">>, clientSecret |-> <<"secret0">>]

\* C19 (as claimed): a lookup is issued only while the four fields of
\* googleTokenMap are present: the token that the last lookup of a call was
\* sent with is not empty, and neither are refreshToken, clientID and
\* clientSecret.
C19_LookupsCarryCredentials ==
    \A c \in Calls :
        call[c].lookups >= 1 =>
            /\ Truthy(call[c].bearer)
            /\ Truthy(googleTokenMap.refreshToken)
            /\ Truthy(googleTokenMap.clientID)
            /\ Truthy(googleTokenMap.clientSecret)

Requests == {"GET", "POST"}
Answers == {"GET:ok", "GET:fail", "POST:ok", "POST:fail"}

\* C20 (as claimed): the steps of a call are strictly sequential.  A request
\* is issued only when every earlier request of the call has been answered;
\* the refresh is issued only after the answer to the first lookup; and a
\* lookup other than the first, the recheck lookup, is issued only after the
\* answer to the refresh.
C20_StepsStrictlySequential ==
    \A c \in Calls :
        \A i \in 1..Len(call[c].log) :
            LET log == call[c].log IN
            /\ (log[i] \in Requests /\ i > 1) => log[i - 1] \in Answers
            /\ log[i] = "POST" => (i = 3 /\ log[1] = "GET" /\ log[2] \in {"GET:ok", "GET:fail"})
            /\ (log[i] = "GET" /\ i > 1) => log[i - 1] \in {"POST:ok", "POST:fail"}

=============================================================================
